---- MODULE Spec2Model ----
(***************************************************************************)
(* Model of the Streamlit Bedrock chat front-end                           *)
(* (src/streamlit/bedrock_chat_app.py): the per-family request and         *)
(* response adapters, the token-usage extractor, the invocation tracer     *)
(* send_message_to_bedrock with its two session logs, and the script runs  *)
(* that a user interaction triggers.  The step-level model at the end      *)
(* follows one script run call by call, for this script and for            *)
(* src/streamlit/accesskey_bedrock_chat_app.py.                            *)
(*                                                                         *)
(* Text is a TLA+ string; Len, \o and SubSeq act on strings as Python's    *)
(* len, + and slicing do.  A JSON value is a tagged record (JObj, JArr,    *)
(* JStr, JNum, JNull) so that Python's subscript, .get and "in" can be     *)
(* modelled with the exceptions they raise.  Time is in milliseconds,      *)
(* round(x, 2) of seconds is a value in hundredths.  The timestamp fields  *)
(* of the records (time.strftime) are left out: nothing reads them but the *)
(* display.                                                                *)
(***************************************************************************)
EXTENDS Integers, Sequences, FiniteSets, TLC

VARIABLES
    messages,              \* st.session_state.messages
    trace_logs,            \* st.session_state.trace_logs
    performance_metrics,   \* st.session_state.performance_metrics
    model_access_checked,  \* st.session_state.model_access_checked
    aws_access_key,        \* sidebar: access key supplied (truthy)
    aws_secret_key,        \* sidebar: secret key supplied (truthy)
    selected_model,        \* sidebar: label chosen in the selectbox
    last,                  \* what the last script run did (observation)
    calls,                 \* remote calls whose result the session kept (bounded)
    a_in,                  \* adapter harness: the inputs of a pure call
    a_out,                 \* adapter harness: the result of the pure call
    app,                   \* the script that runs (step-level model)
    pc,                    \* where the running script is; "idle" between runs
    in_flight,             \* the remote calls issued and not yet returned
    probes,                \* model id -> access probes issued in the session
    run                    \* what the current run has done so far

vars == <<messages, trace_logs, performance_metrics, model_access_checked,
          aws_access_key, aws_secret_key, selected_model,
          last, calls, a_in, a_out, app, pc, in_flight, probes, run>>

session_vars == <<messages, trace_logs, performance_metrics,
                  model_access_checked, aws_access_key, aws_secret_key,
                  selected_model, last, calls>>

adapter_vars == <<a_in, a_out>>

run_vars == <<app, pc, in_flight, probes, run>>

-----------------------------------------------------------------------------
(* Bounds *)

MaxMsgs == 2       \* longest conversation handed to the pure adapters
MaxCalls == 3      \* remote calls (probes and invocations) in a session

-----------------------------------------------------------------------------
(* JSON values and the Python operations the code applies to them *)

JObj(f) == [k |-> "obj", f |-> f]
JArr(a) == [k |-> "arr", a |-> a]
JStr(s) == [k |-> "str", s |-> s]
JNum(n) == [k |-> "num", n |-> n]
JNull == [k |-> "null"]

Ok(v) == [exc |-> "none", val |-> v]
Raise(e) == [exc |-> e]

\* Python: sub in s, for two strings
Contains(sub, s) ==
    \E i \in 1..(Len(s) - Len(sub) + 1) : SubSeq(s, i, i + Len(sub) - 1) = sub

\* Python: v[key] with a string key
GetItemStr(v, key) ==
    IF v.k = "obj"
    THEN IF key \in DOMAIN v.f THEN Ok(v.f[key]) ELSE Raise("KeyError")
    ELSE Raise("TypeError")

\* Python: v[0]
GetItem0(v) ==
    CASE v.k = "arr" -> IF Len(v.a) > 0 THEN Ok(v.a[1]) ELSE Raise("IndexError")
      [] v.k = "str" -> IF Len(v.s) > 0 THEN Ok(JStr(SubSeq(v.s, 1, 1)))
                                        ELSE Raise("IndexError")
      [] v.k = "obj" -> Raise("KeyError")
      [] OTHER -> Raise("TypeError")

\* Python: key in v, with a string key
InOp(key, v) ==
    CASE v.k = "obj" -> Ok(key \in DOMAIN v.f)
      [] v.k = "arr" -> Ok(\E i \in 1..Len(v.a) : v.a[i] = JStr(key))
      [] v.k = "str" -> Ok(Contains(key, v.s))
      [] OTHER -> Raise("TypeError")

\* Python: v.get(key, default)
GetOp(v, key, default) ==
    IF v.k = "obj"
    THEN Ok(IF key \in DOMAIN v.f THEN v.f[key] ELSE default)
    ELSE Raise("AttributeError")

\* number of decimal digits of a natural number
RECURSIVE Digits(_)
Digits(n) == IF n < 10 THEN 1 ELSE 1 + Digits(n \div 10)

\* Python: len(str(v)) for the values a prompt or generation field holds
LenStr(v) ==
    CASE v.k = "str" -> Len(v.s)
      [] v.k = "num" -> Digits(v.n)
      [] v.k = "null" -> 4
      [] OTHER -> 2

\* the integer a usage field holds (token counts are JSON numbers)
NumOf(v) == IF v.k = "num" THEN v.n ELSE 0

-----------------------------------------------------------------------------
(* Model identifiers *)

model_options ==
    ("Amazon Titan Text Express" :> "amazon.titan-text-express-v1") @@
    ("Claude Instant" :> "anthropic.claude-instant-v1") @@
    ("Claude 3 Haiku" :> "anthropic.claude-3-haiku-20240307-v1:0") @@
    ("Claude 3 Sonnet" :> "anthropic.claude-3-sonnet-20240229-v1:0") @@
    ("Llama 2 Chat 13B" :> "meta.llama2-13b-chat-v1")

ModelLabels == DOMAIN model_options

\* the labels the user of the modelled session picks: one per family
SessionLabels ==
    {"Amazon Titan Text Express", "Claude 3 Haiku", "Llama 2 Chat 13B"}

\* identifiers of other providers' models, which no branch names
OtherModelIds == {"cohere.command-text-v14"}

AllModelIds == {model_options[l] : l \in ModelLabels} \cup OtherModelIds

-----------------------------------------------------------------------------
(* Request adapter: the dispatch at the head of send_message_to_bedrock *)

Role(msg) == IF msg.role = "user" THEN "user" ELSE "assistant"

\* the Claude branch: conversation.append({"role": role, "content": ...})
AnthropicConversation(msgs) ==
    [i \in 1..Len(msgs) |-> [role |-> Role(msgs[i]), content |-> msgs[i].content]]

\* the Llama branch's loop: prompt += f"Human: ..."/f"Assistant: ..."
RECURSIVE LlamaLoop(_, _, _)
LlamaLoop(msgs, i, prompt) ==
    IF i > Len(msgs) THEN prompt
    ELSE LlamaLoop(msgs, i + 1,
           prompt \o (IF msgs[i].role = "user" THEN "Human: " ELSE "Assistant: ")
                  \o msgs[i].content \o "\n")

LlamaPrompt_NoCue(msgs) == LlamaLoop(msgs, 1, "")

LlamaPrompt(msgs) == LlamaLoop(msgs, 1, "") \o "Assistant: "

\* the default branch's loop: prompt += f"User: ..."/f"Assistant: ..."
RECURSIVE TitanLoop(_, _, _)
TitanLoop(msgs, i, prompt) ==
    IF i > Len(msgs) THEN prompt
    ELSE TitanLoop(msgs, i + 1,
           prompt \o (IF msgs[i].role = "user" THEN "User: " ELSE "Assistant: ")
                  \o msgs[i].content \o "\n")

TitanPrompt(msgs) == TitanLoop(msgs, 1, "") \o "Assistant: "

\* temperature and topP are in tenths (0.7 is 7, 0.9 is 9)
request_body_DropLast(model_id, msgs, max_tokens, temperature) ==
    LET m == IF Len(msgs) > 1 THEN SubSeq(msgs, 1, Len(msgs) - 1) ELSE msgs IN
    IF Contains("anthropic", model_id)
    THEN [anthropic_version |-> "bedrock-2023-05-31", max_tokens |-> max_tokens,
          temperature |-> temperature, messages |-> AnthropicConversation(m)]
    ELSE IF Contains("meta.llama", model_id)
    THEN [prompt |-> LlamaPrompt(m), max_gen_len |-> max_tokens,
          temperature |-> temperature]
    ELSE [inputText |-> TitanPrompt(m),
          textGenerationConfig |-> [maxTokenCount |-> max_tokens,
                                    temperature |-> temperature, topP |-> 9]]

request_body(model_id, msgs, max_tokens, temperature) ==
    IF Contains("anthropic", model_id)
    THEN [anthropic_version |-> "bedrock-2023-05-31", max_tokens |-> max_tokens,
          temperature |-> temperature, messages |-> AnthropicConversation(msgs)]
    ELSE IF Contains("meta.llama", model_id)
    THEN [prompt |-> LlamaPrompt(msgs), max_gen_len |-> max_tokens,
          temperature |-> temperature]
    ELSE [inputText |-> TitanPrompt(msgs),
          textGenerationConfig |-> [maxTokenCount |-> max_tokens,
                                    temperature |-> temperature, topP |-> 9]]

-----------------------------------------------------------------------------
(* Response adapter: the text extraction inside send_message_to_bedrock *)

\* response_body['content'][0]['text']
AnthropicText(body) ==
    LET c == GetItemStr(body, "content") IN
    IF c.exc # "none" THEN c
    ELSE LET e == GetItem0(c.val) IN
         IF e.exc # "none" THEN e ELSE GetItemStr(e.val, "text")

\* response_body['generation']
LlamaText(body) == GetItemStr(body, "generation")

\* response_body['results'][0]['outputText']
TitanText(body) ==
    LET c == GetItemStr(body, "results") IN
    IF c.exc # "none" THEN c
    ELSE LET e == GetItem0(c.val) IN
         IF e.exc # "none" THEN e ELSE GetItemStr(e.val, "outputText")

response_text_Swallow(model_id, body) ==
    LET r == IF Contains("anthropic", model_id) THEN AnthropicText(body)
             ELSE IF Contains("meta.llama", model_id) THEN LlamaText(body)
             ELSE TitanText(body) IN
    IF r.exc # "none" THEN Ok(JStr("")) ELSE r

response_text(model_id, body) ==
    IF Contains("anthropic", model_id) THEN AnthropicText(body)
    ELSE IF Contains("meta.llama", model_id) THEN LlamaText(body)
    ELSE TitanText(body)

-----------------------------------------------------------------------------
(* Token-usage extractor: extract_token_counts *)

Usage(i, o) == [exc |-> "none", input_tokens |-> i, output_tokens |-> o]

\* the branch of the if/elif chain that is taken ("none" when none is), or
\* the exception that evaluating its conditions raises
TokenBranch(model_id, body) ==
    LET c1 == IF Contains("anthropic", model_id)
              THEN InOp("usage", body) ELSE Ok(FALSE) IN
    IF c1.exc # "none" THEN c1
    ELSE IF c1.val THEN Ok("anthropic")
    ELSE LET c2 == IF Contains("amazon", model_id)
                   THEN InOp("amazon-bedrock-invocationMetrics", body)
                   ELSE Ok(FALSE) IN
         IF c2.exc # "none" THEN c2
         ELSE IF c2.val THEN Ok("amazon")
         ELSE IF Contains("meta.llama", model_id) THEN Ok("llama")
         ELSE Ok("none")

\* the two usage.get(...) / metrics.get(...) lines of a branch
SubObjectCounts(body, key, in_key, out_key) ==
    LET sub == GetItemStr(body, key) IN
    IF sub.exc # "none" THEN sub
    ELSE LET i == GetOp(sub.val, in_key, JNum(0)) IN
         IF i.exc # "none" THEN i
         ELSE LET o == GetOp(sub.val, out_key, JNum(0)) IN
              IF o.exc # "none" THEN o
              ELSE Usage(NumOf(i.val), NumOf(o.val))

\* the Llama branch: len(str(field)) // 4 of prompt and of generation
LlamaEstimate_SameField(body) ==
    LET p == GetOp(body, "prompt", JStr("")) IN
    IF p.exc # "none" THEN p
    ELSE Usage(LenStr(p.val) \div 4, LenStr(p.val) \div 4)

LlamaEstimate(body) ==
    LET p == GetOp(body, "prompt", JStr("")) IN
    IF p.exc # "none" THEN p
    ELSE LET g == GetOp(body, "generation", JStr("")) IN
         IF g.exc # "none" THEN g
         ELSE Usage(LenStr(p.val) \div 4, LenStr(g.val) \div 4)

\* the body of the try block
TokenCountsTry(model_id, body) ==
    LET b == TokenBranch(model_id, body) IN
    IF b.exc # "none" THEN b
    ELSE CASE b.val = "anthropic" ->
                SubObjectCounts(body, "usage", "input_tokens", "output_tokens")
           [] b.val = "amazon" ->
                SubObjectCounts(body, "amazon-bedrock-invocationMetrics",
                                "inputTokenCount", "outputTokenCount")
           [] b.val = "llama" -> LlamaEstimate(body)
           [] OTHER -> Usage(0, 0)

extract_token_counts_NoExcept(model_id, body) == TokenCountsTry(model_id, body)

\* try: ... except Exception: pass; return input_tokens, output_tokens
extract_token_counts(model_id, body) ==
    LET r == TokenCountsTry(model_id, body) IN
    IF r.exc # "none" THEN Usage(0, 0) ELSE r

-----------------------------------------------------------------------------
(* The payloads the remote service may answer with *)

MetricsKey == "amazon-bedrock-invocationMetrics"

AnthropicContent(text) == JArr(<<JObj([type |-> JStr("text"), text |-> JStr(text)])>>)

AnthropicUsage(i, o) == JObj([input_tokens |-> JNum(i), output_tokens |-> JNum(o)])

TitanResults(text) == JArr(<<JObj([outputText |-> JStr(text)])>>)

TitanMetrics(i, o) == JObj([inputTokenCount |-> JNum(i), outputTokenCount |-> JNum(o)])

AnthropicBodies ==
    { JObj([content |-> AnthropicContent("Hi"), usage |-> AnthropicUsage(3, 5)]),
      JObj([content |-> AnthropicContent("Sure.\nOK")]),
      JObj([content |-> AnthropicContent("Hi"),
            usage |-> JObj([input_tokens |-> JNum(3)])]),
      JObj([content |-> AnthropicContent("Hi"), usage |-> JNull]),
      JObj([content |-> JArr(<<>>), usage |-> AnthropicUsage(3, 0)]) }

LlamaBodies ==
    { JObj([generation |-> JStr("Hi there!"),
            prompt |-> JStr("Human: Hello\nAssistant: ")]),
      JObj([generation |-> JStr("Hi there!"), stop_reason |-> JStr("stop")]),
      JObj([prompt |-> JStr("Hello")]),
      JObj([generation |-> JStr("")]) }

TitanBodies ==
    { JObj(("results" :> TitanResults("Hi")) @@ (MetricsKey :> TitanMetrics(5, 7))),
      JObj([results |-> TitanResults("Hi"), inputTextTokenCount |-> JNum(5)]),
      JObj(("results" :> TitanResults("Hi")) @@ (MetricsKey :> JNull)) }

\* a payload that carries every family's fields, one without any of them, and
\* payloads that are no JSON object
OtherBodies ==
    { JObj(("content" :> AnthropicContent("Hi")) @@ ("usage" :> AnthropicUsage(3, 5)) @@
           ("generation" :> JStr("Hi there!")) @@ ("prompt" :> JStr("Hello")) @@
           ("results" :> TitanResults("Hi")) @@ (MetricsKey :> TitanMetrics(5, 7))),
      JObj([message |-> JStr("throttled")]),
      JArr(<<>>),
      JNull }

ResponseBodies == AnthropicBodies \cup LlamaBodies \cup TitanBodies \cup OtherBodies

-----------------------------------------------------------------------------
(* Conversations *)

Contents == {"Hello", "a\nb"}

Msgs == [role : {"user", "assistant"}, content : Contents]

Conversations == UNION {[1..n -> Msgs] : n \in 0..MaxMsgs}

-----------------------------------------------------------------------------
(* The remote call client.invoke_model and what it may do *)

\* the sliders' default positions; the temperature is in tenths
max_tokens == 1024
temperature == 7

Prompts == {"Hello"}

\* invoke_model returns a payload after some elapsed time (ms), raises
\* botocore's ClientError (the service refused: access denied, throttling,
\* ...) or raises another exception (the transport failed: botocore's
\* EndpointConnectionError is no ClientError)
Answer(body, ms) == [kind |-> "ok", body |-> body, msg |-> "", elapsed |-> ms]
Failure(kind, msg) == [kind |-> kind, body |-> JNull, msg |-> msg, elapsed |-> 0]
NoOutcome == Failure("none", "")

\* the answers of a model's service: well-formed payloads of its family,
\* one of them with no measurable elapsed time, and a payload that lacks
\* the family's text field
AnswersOf(model_id) ==
    (IF Contains("anthropic", model_id)
     THEN LET b == JObj([content |-> AnthropicContent("Hi"),
                         usage |-> AnthropicUsage(3, 5)]) IN
          {Answer(b, 1234), Answer(b, 0)}
     ELSE IF Contains("meta.llama", model_id)
     THEN {Answer(JObj([generation |-> JStr("Hi there!"),
                        prompt |-> JStr("Human: Hello\nAssistant: ")]), 1234),
           Answer(JObj([generation |-> JStr("")]), 4)}
     ELSE LET b == JObj(("results" :> TitanResults("Hi")) @@
                        (MetricsKey :> TitanMetrics(5, 7))) IN
          {Answer(b, 1234), Answer(b, 4)})
    \cup {Answer(JObj([message |-> JStr("throttled")]), 1234)}

Outcomes(model_id) ==
    AnswersOf(model_id)
    \cup {Failure("ClientError", "AccessDeniedException"),
          Failure("EndpointConnectionError", "Could not connect")}

-----------------------------------------------------------------------------
(* check_model_access *)

\* True when the call returns; on ClientError, False exactly when the error
\* text holds "AccessDeniedException"; any other exception propagates
check_model_access(outcome) ==
    CASE outcome.kind = "ok" -> Ok(TRUE)
      [] outcome.kind = "ClientError" ->
            Ok(~Contains("AccessDeniedException", outcome.msg))
      [] OTHER -> Raise(outcome.kind)

-----------------------------------------------------------------------------
(* send_message_to_bedrock *)

FallbackText ==
    "I encountered an error processing your request. Please check your AWS credentials and permissions."

\* round(a / b) to the nearest integer, ties to even (Python's round), a >= 0, b > 0
RoundDiv(a, b) ==
    LET q == a \div b
        r == a % b IN
    IF 2 * r < b THEN q
    ELSE IF 2 * r > b THEN q + 1
    ELSE IF q % 2 = 0 THEN q ELSE q + 1

\* Python: a / b
TrueDiv(a, b) == IF b = 0 THEN Raise("ZeroDivisionError") ELSE Ok([num |-> a, den |-> b])

\* round(elapsed_time, 2), in hundredths of a second
Round2(ms) == RoundDiv(ms, 10)

\* variant: the rate taken from the rounded time that the record stores
tokens_per_second_OfRounded(tokens, ms) ==
    IF ms > 0
    THEN IF Round2(ms) = 0 THEN Ok(0)
         ELSE Ok(RoundDiv(tokens * 100 * 100, Round2(ms)))
    ELSE Ok(0)

\* round(tokens / elapsed_time, 2) if elapsed_time > 0 else 0, in hundredths
tokens_per_second(tokens, ms) ==
    IF ms > 0
    THEN LET d == TrueDiv(tokens * 1000, ms) IN
         IF d.exc # "none" THEN d ELSE Ok(RoundDiv(d.val.num * 100, d.val.den))
    ELSE Ok(0)

\* Python: len(v)
LenOp(v) ==
    CASE v.k = "str" -> Ok(Len(v.s))
      [] v.k = "arr" -> Ok(Len(v.a))
      [] v.k = "obj" -> Ok(Cardinality(DOMAIN v.f))
      [] OTHER -> Raise("TypeError")

trace_log(model_id, request, body, ms, mt, temp) ==
    [model_id |-> model_id, request |-> request, response |-> body,
     elapsed_time |-> Round2(ms),
     parameters |-> [max_tokens |-> mt, temperature |-> temp]]

error_log(model_id, msg, request) ==
    [model_id |-> model_id, error |-> msg, request |-> request]

performance_metric(label, user_query, response_length, usage, ms, tps) ==
    [model |-> label, query_length |-> Len(user_query),
     response_length |-> response_length,
     input_tokens |-> usage.input_tokens, output_tokens |-> usage.output_tokens,
     total_tokens |-> usage.input_tokens + usage.output_tokens,
     response_time |-> Round2(ms), tokens_per_second |-> tps]

\* the result of a call: the exception that escapes it ("none" when it
\* returns), the value returned, and the two logs as the call leaves them
Result(exc, ret, tl, pm) ==
    [exc |-> exc, ret |-> ret, trace_logs |-> tl, performance_metrics |-> pm]

\* the part of the try block after invoke_model has returned
AfterInvoke(label, model_id, msgs, mt, temp, body, ms, tl, pm) ==
    LET request == request_body(model_id, msgs, mt, temp)
        user_query == IF Len(msgs) > 0 THEN msgs[Len(msgs)].content ELSE ""
        usage == extract_token_counts(model_id, body)
        text == response_text(model_id, body) IN
    IF text.exc # "none" THEN Result(text.exc, JNull, tl, pm)
    ELSE LET tl2 == Append(tl, trace_log(model_id, request, body, ms, mt, temp))
             n == LenOp(text.val) IN
         IF n.exc # "none" THEN Result(n.exc, JNull, tl2, pm)
         ELSE LET tps == tokens_per_second(usage.input_tokens + usage.output_tokens, ms) IN
              IF tps.exc # "none" THEN Result(tps.exc, JNull, tl2, pm)
              ELSE Result("none", text.val, tl2,
                          Append(pm, performance_metric(label, user_query, n.val,
                                                        usage, ms, tps.val)))

\* variant: the error entry put at the head of the log
send_message_to_bedrock_Prepend(label, model_id, msgs, mt, temp, outcome, tl, pm) ==
    LET request == request_body(model_id, msgs, mt, temp) IN
    CASE outcome.kind = "ok" ->
            AfterInvoke(label, model_id, msgs, mt, temp, outcome.body, outcome.elapsed, tl, pm)
      [] outcome.kind = "ClientError" ->
            Result("none", JStr(FallbackText),
                   <<error_log(model_id, outcome.msg, request)>> \o tl, pm)
      [] OTHER -> Result(outcome.kind, JNull, tl, pm)

\* try: ... except ClientError: append the error log, return the fallback text.
\* An exception that is no ClientError escapes with the logs as they are.
send_message_to_bedrock(label, model_id, msgs, mt, temp, outcome, tl, pm) ==
    LET request == request_body(model_id, msgs, mt, temp) IN
    CASE outcome.kind = "ok" ->
            AfterInvoke(label, model_id, msgs, mt, temp, outcome.body, outcome.elapsed, tl, pm)
      [] outcome.kind = "ClientError" ->
            Result("none", JStr(FallbackText),
                   Append(tl, error_log(model_id, outcome.msg, request)), pm)
      [] OTHER -> Result(outcome.kind, JNull, tl, pm)

-----------------------------------------------------------------------------
(* The session: one action per script run that a user interaction triggers. *)
(* Every run starts with the access probe of the selected model; an         *)
(* exception that escapes ends the run and keeps the session state as the   *)
(* run left it.                                                             *)

selected_model_id == model_options[selected_model]

\* what a run reports: its interaction, the exception that ended it ("none"
\* when it ran to its end), whether it probed and whether it called
\* send_message_to_bedrock, the outcome of that call's invoke_model with the
\* elapsed_time measured around it (ms), the text returned, and the lengths
\* of the two logs before the run
Report(op, exc, probed, invoked, outcome, ret, tl, pm) ==
    [op |-> op, exc |-> exc, probed |-> probed, invoked |-> invoked,
     outcome |-> outcome, ret |-> ret,
     trace_before |-> Len(tl), perf_before |-> Len(pm)]

\* the report of a run that is no chat turn
OtherRun == Report("other", "none", FALSE, FALSE, NoOutcome, JNull, <<>>, <<>>)

SessionStart ==
    /\ messages = <<>>
    /\ trace_logs = <<>>
    /\ performance_metrics = <<>>
    /\ model_access_checked = <<>>
    /\ aws_access_key = FALSE
    /\ aws_secret_key = FALSE
    /\ selected_model = "Amazon Titan Text Express"
    /\ last = OtherRun
    /\ calls = 0

\* if model_id not in model_access_checked and aws_access_key and aws_secret_key
ProbeNeeded(label, key, secret) ==
    model_options[label] \notin DOMAIN model_access_checked /\ key /\ secret

\* the probe at the head of a run with the sidebar at (label, key, secret):
\* the exception that escapes it and the cache it leaves
Probe(label, key, secret, po) ==
    IF ProbeNeeded(label, key, secret)
    THEN LET has_access == check_model_access(po) IN
         IF has_access.exc # "none"
         THEN [exc |-> has_access.exc, cache |-> model_access_checked]
         ELSE [exc |-> "none",
               cache |-> model_access_checked @@ (model_options[label] :> has_access.val)]
    ELSE [exc |-> "none", cache |-> model_access_checked]

\* what the probe's invoke_model may do (the payload of an answer is not
\* read); one outcome when no probe is issued
ProbeOutcomes(label, key, secret) ==
    IF ProbeNeeded(label, key, secret)
    THEN {Answer(JNull, 0),
          Failure("ClientError", "AccessDeniedException"),
          Failure("ClientError", "ThrottlingException"),
          Failure("EndpointConnectionError", "Could not connect")}
    ELSE {Answer(JNull, 0)}

\* a probe counts toward the bound when its result is cached
ProbeCalls(p) == IF p.cache # model_access_checked THEN 1 ELSE 0

\* the user edits one widget of the sidebar: a credential typed or cleared,
\* or a model selected
SidebarChange ==
    \E label \in SessionLabels, key \in BOOLEAN, secret \in BOOLEAN :
    \E po \in ProbeOutcomes(label, key, secret) :
        LET p == Probe(label, key, secret, po) IN
        /\ \/ label # selected_model /\ key = aws_access_key /\ secret = aws_secret_key
           \/ label = selected_model /\ key # aws_access_key /\ secret = aws_secret_key
           \/ label = selected_model /\ key = aws_access_key /\ secret # aws_secret_key
        /\ calls + ProbeCalls(p) <= MaxCalls
        /\ calls' = calls + ProbeCalls(p)
        /\ model_access_checked' = p.cache
        /\ selected_model' = label
        /\ aws_access_key' = key
        /\ aws_secret_key' = secret
        /\ last' = OtherRun
        /\ UNCHANGED <<messages, trace_logs, performance_metrics, adapter_vars, run_vars>>

\* the user submits a prompt in the chat input
ChatTurn ==
    \E prompt \in Prompts,
       po \in ProbeOutcomes(selected_model, aws_access_key, aws_secret_key) :
    \E outcome \in (IF check_model_access(po).exc = "none"
                        /\ aws_access_key /\ aws_secret_key
                     THEN Outcomes(selected_model_id) ELSE {NoOutcome}) :
        LET probing == ProbeNeeded(selected_model, aws_access_key, aws_secret_key)
            p == Probe(selected_model, aws_access_key, aws_secret_key, po)
            with_user == Append(messages, [role |-> "user", content |-> prompt])
            r == send_message_to_bedrock(selected_model, selected_model_id, with_user,
                                         max_tokens, temperature, outcome,
                                         trace_logs, performance_metrics) IN
        /\ model_access_checked' = p.cache
        /\ IF p.exc # "none"
           THEN \* the probe raised: the run ends before the chat tab
                /\ last' = Report("chat", p.exc, probing, FALSE, NoOutcome, JNull,
                                  trace_logs, performance_metrics)
                /\ UNCHANGED <<messages, trace_logs, performance_metrics, calls>>
           ELSE IF ~aws_access_key \/ ~aws_secret_key
           THEN \* st.error("Please provide your AWS credentials ...")
                /\ last' = Report("chat", "none", probing, FALSE, NoOutcome, JNull,
                                  trace_logs, performance_metrics)
                /\ UNCHANGED <<messages, trace_logs, performance_metrics, calls>>
           ELSE /\ calls + ProbeCalls(p) < MaxCalls
                /\ calls' = calls + ProbeCalls(p) + 1
                /\ trace_logs' = r.trace_logs
                /\ performance_metrics' = r.performance_metrics
                /\ messages' =
                      IF r.exc = "none" /\ r.ret.k = "str" /\ r.ret.s # ""
                      THEN Append(with_user, [role |-> "assistant", content |-> r.ret.s])
                      ELSE with_user
                /\ last' = Report("chat", r.exc, probing, TRUE,
                                  outcome, r.ret,
                                  trace_logs, performance_metrics)
        /\ UNCHANGED <<aws_access_key, aws_secret_key, selected_model, adapter_vars, run_vars>>

\* the user clicks "Start New Conversation"
StartNewConversation ==
    \E po \in ProbeOutcomes(selected_model, aws_access_key, aws_secret_key) :
        LET p == Probe(selected_model, aws_access_key, aws_secret_key, po) IN
        /\ calls + ProbeCalls(p) <= MaxCalls
        /\ calls' = calls + ProbeCalls(p)
        /\ model_access_checked' = p.cache
        /\ messages' = IF p.exc = "none" THEN <<>> ELSE messages
        /\ last' = OtherRun
        /\ UNCHANGED <<trace_logs, performance_metrics, aws_access_key,
                       aws_secret_key, selected_model, adapter_vars, run_vars>>

\* the user clicks "Clear Metrics", a button shown when the log is not empty
ClearMetrics ==
    \E po \in ProbeOutcomes(selected_model, aws_access_key, aws_secret_key) :
        LET p == Probe(selected_model, aws_access_key, aws_secret_key, po) IN
        /\ performance_metrics # <<>>
        /\ calls + ProbeCalls(p) <= MaxCalls
        /\ calls' = calls + ProbeCalls(p)
        /\ model_access_checked' = p.cache
        /\ performance_metrics' = IF p.exc = "none" THEN <<>> ELSE performance_metrics
        /\ last' = OtherRun
        /\ UNCHANGED <<messages, trace_logs, aws_access_key, aws_secret_key,
                       selected_model, adapter_vars, run_vars>>

\* the user clicks "Clear Trace Logs", a button shown when the log is not empty
ClearTraceLogs ==
    \E po \in ProbeOutcomes(selected_model, aws_access_key, aws_secret_key) :
        LET p == Probe(selected_model, aws_access_key, aws_secret_key, po) IN
        /\ trace_logs # <<>>
        /\ calls + ProbeCalls(p) <= MaxCalls
        /\ calls' = calls + ProbeCalls(p)
        /\ model_access_checked' = p.cache
        /\ trace_logs' = IF p.exc = "none" THEN <<>> ELSE trace_logs
        /\ last' = OtherRun
        /\ UNCHANGED <<messages, performance_metrics, aws_access_key, aws_secret_key,
                       selected_model, adapter_vars, run_vars>>

Apps == {"bedrock_chat_app", "accesskey_bedrock_chat_app"}

\* the record of a run: its number in the session, the interaction that
\* started it, the history length it started with, the outcome of the
\* probe's invoke_model and what check_model_access reported, whether
\* send_message_to_bedrock was called and the outcome of its invoke_model,
\* the exception that ended the run and the text the call returned
NoRun ==
    [n |-> 0, op |-> "none", start_len |-> 0,
     probe |-> NoOutcome, report |-> "none",
     invoked |-> FALSE, outcome |-> NoOutcome,
     exc |-> "none", ret |-> JNull]

\* no script is running
ScriptIdle ==
    /\ pc = "idle"
    /\ in_flight = <<>>
    /\ probes = [m \in AllModelIds |-> 0]
    /\ run = NoRun

Init ==
    /\ SessionStart
    /\ a_in = [model_id |-> "none"]
    /\ a_out = [fn |-> "none"]
    /\ app = "bedrock_chat_app"
    /\ ScriptIdle

Next ==
    \/ SidebarChange
    \/ ChatTurn
    \/ StartNewConversation
    \/ ClearMetrics
    \/ ClearTraceLogs

Spec == Init /\ [][Next]_vars

-----------------------------------------------------------------------------
(* The adapters as pure functions: inputs drawn in the initial state, one    *)
(* action per function                                                      *)

AdapterInit ==
    /\ SessionStart
    /\ a_in \in [model_id : AllModelIds, messages : Conversations,
                 body : ResponseBodies, max_tokens : {10, 1024},
                 temperature : {7}]
    /\ a_out = [fn |-> "none"]
    /\ app = "bedrock_chat_app"
    /\ ScriptIdle

BuildRequest ==
    /\ a_out.fn = "none"
    /\ a_out' = [fn |-> "request_body",
                 request |-> request_body(a_in.model_id, a_in.messages,
                                          a_in.max_tokens, a_in.temperature)]
    /\ UNCHANGED <<a_in, session_vars, run_vars>>

ExtractText ==
    /\ a_out.fn = "none"
    /\ a_out' = [fn |-> "response_text",
                 text |-> response_text(a_in.model_id, a_in.body)]
    /\ UNCHANGED <<a_in, session_vars, run_vars>>

ExtractTokenCounts ==
    /\ a_out.fn = "none"
    /\ a_out' = [fn |-> "extract_token_counts",
                 usage |-> extract_token_counts(a_in.model_id, a_in.body)]
    /\ UNCHANGED <<a_in, session_vars, run_vars>>

AdapterNext == BuildRequest \/ ExtractText \/ ExtractTokenCounts

SpecAdapter == AdapterInit /\ [][AdapterNext]_vars

-----------------------------------------------------------------------------
(* The metrics tab: the summary statistics over the performance log.  A      *)
(* value read off a record is in the record's unit (hundredths for           *)
(* response_time and tokens_per_second, tokens for total_tokens); a mean or  *)
(* a difference is the exact fraction num / den of that unit.                *)

RECURSIVE SumTo(_, _, _)
SumTo(df, col, n) == IF n = 0 THEN 0 ELSE SumTo(df, col, n - 1) + df[n][col]

\* df[col].mean()
Mean(df, col) == [num |-> SumTo(df, col, Len(df)), den |-> Len(df)]

\* variant: the difference taken from the first record
LastDelta_FromFirst(df, col) ==
    [num |-> Len(df) * df[1][col] - Mean(df, col).num, den |-> Len(df)]

\* df[col].iloc[-1] - df[col].mean()
LastDelta(df, col) ==
    [num |-> Len(df) * df[Len(df)][col] - Mean(df, col).num, den |-> Len(df)]

\* f"{x:.2f}" and f"{x:.0f}" of x = q.num / q.den, as a count of the last
\* digit shown: the nearest count.  On an exact decimal tie the binary float
\* lies on either side of it, so both neighbours are outcomes.
Format(q) ==
    {x \in {q.num \div q.den, (q.num \div q.den) + 1} :
        /\ 2 * (x * q.den - q.num) <= q.den
        /\ 2 * (q.num - x * q.den) <= q.den}

Shown(x) == [absent |-> FALSE, v |-> x]
None == [absent |-> TRUE]

\* st.metric(label, value, delta=... if len(df) > 1 else None): what it may show
Metric(df, col) ==
    [value : Format(Mean(df, col)),
     delta : IF Len(df) > 1 THEN {Shown(x) : x \in Format(LastDelta(df, col))}
                            ELSE {None}]

\* variant: the statistics computed whatever the log holds
metrics_tab_NoGuard(pm) ==
    IF pm = <<>> THEN {[kind |-> "KeyError"]}
    ELSE [kind : {"summary"},
          response_time : Metric(pm, "response_time"),
          total_tokens : Metric(pm, "total_tokens"),
          tokens_per_second : Metric(pm, "tokens_per_second")]

\* with metrics_tab: what the tab may render for the log pm
metrics_tab(pm) ==
    IF pm = <<>> THEN {[kind |-> "info"]}
    ELSE [kind : {"summary"},
          response_time : Metric(pm, "response_time"),
          total_tokens : Metric(pm, "total_tokens"),
          tokens_per_second : Metric(pm, "tokens_per_second")]

\* with trace_tab: what the tab renders for the log tl
trace_tab(tl) ==
    IF tl = <<>> THEN [kind |-> "info"]
    ELSE [kind |-> "entries", count |-> Len(tl)]

MaxLog == 2

\* records that calls can have appended: the token counts and the elapsed
\* time (ms) of a call, turned into a record as send_message_to_bedrock does
LogUsages == {Usage(60, 40), Usage(30, 20), Usage(4, 5)}
LogElapsed == {2000, 1000, 1234, 0}

PerfRecords ==
    {performance_metric(l, "Hello", 2, u, ms,
                        tokens_per_second(u.input_tokens + u.output_tokens, ms).val) :
        l \in {"Claude 3 Haiku", "Amazon Titan Text Express"},
        u \in LogUsages, ms \in LogElapsed}

PerfLogs == UNION {[1..n -> PerfRecords] : n \in 0..MaxLog}

AggregatorInit ==
    /\ SessionStart
    /\ a_in \in [log : PerfLogs]
    /\ a_out = [fn |-> "none"]
    /\ app = "bedrock_chat_app"
    /\ ScriptIdle

Summarize ==
    /\ a_out.fn = "none"
    /\ \E view \in metrics_tab(a_in.log) :
          a_out' = [fn |-> "metrics_tab", view |-> view]
    /\ UNCHANGED <<a_in, session_vars, run_vars>>

AggregatorNext == Summarize

SpecAggregator == AggregatorInit /\ [][AggregatorNext]_vars

-----------------------------------------------------------------------------
(* One script run, call by call.  A run starts with a user interaction, and *)
(* the script then executes top to bottom in one thread: invoke_model       *)
(* blocks, so the script stands at the call while it is in flight.  The     *)
(* accesskey script has the same probe and adapters, keeps no logs, and     *)
(* gates the chat turn on the cached probe result.                          *)

MaxRuns == 5

\* accesskey_bedrock_chat_app.send_message_to_bedrock: the dispatches without
\* the logs
accesskey_send_message_to_bedrock(model_id, msgs, mt, temp, outcome, tl, pm) ==
    CASE outcome.kind = "ok" ->
            LET text == response_text(model_id, outcome.body) IN
            IF text.exc # "none" THEN Result(text.exc, JNull, tl, pm)
            ELSE Result("none", text.val, tl, pm)
      [] outcome.kind = "ClientError" -> Result("none", JStr(FallbackText), tl, pm)
      [] OTHER -> Result(outcome.kind, JNull, tl, pm)

\* variant: the accesskey script with the chat gate of bedrock_chat_app
chat_allowed_CredentialsOnly(script, key, secret, cache, model_id) ==
    key /\ secret

\* the conditions under which the chat branch goes on to the call: the
\* credentials in both scripts, and in the accesskey script
\* not (not cache.get(model_id, False) and model_id in cache)
chat_allowed(script, key, secret, cache, model_id) ==
    /\ key /\ secret
    /\ script = "accesskey_bedrock_chat_app" =>
          ~(model_id \in DOMAIN cache /\ ~cache[model_id])

Call(kind, model_id) == [call |-> kind, model_id |-> model_id]

\* the interactions that start a run: a prompt, one of the buttons, or one
\* widget of the sidebar edited; the two clear buttons exist in
\* bedrock_chat_app only, and only while their log holds records
Ops == {"chat", "new_conversation", "sidebar", "clear_metrics", "clear_trace_logs"}

Interaction(op, label, key, secret) ==
    /\ IF op = "sidebar"
       THEN \/ label # selected_model /\ key = aws_access_key /\ secret = aws_secret_key
            \/ label = selected_model /\ key # aws_access_key /\ secret = aws_secret_key
            \/ label = selected_model /\ key = aws_access_key /\ secret # aws_secret_key
       ELSE label = selected_model /\ key = aws_access_key /\ secret = aws_secret_key
    /\ op = "clear_metrics" =>
          app = "bedrock_chat_app" /\ performance_metrics # <<>>
    /\ op = "clear_trace_logs" =>
          app = "bedrock_chat_app" /\ trace_logs # <<>>

\* variant: "Start New Conversation" resets the whole session
Buttons_ResetAll(op, msgs, tl, pm) ==
    [messages |-> IF op = "new_conversation" THEN <<>> ELSE msgs,
     trace_logs |-> IF op \in {"clear_trace_logs", "new_conversation"} THEN <<>> ELSE tl,
     performance_metrics |-> IF op \in {"clear_metrics", "new_conversation"} THEN <<>> ELSE pm]

\* the three buttons: each assigns [] to its own list
Buttons(op, msgs, tl, pm) ==
    [messages |-> IF op = "new_conversation" THEN <<>> ELSE msgs,
     trace_logs |-> IF op = "clear_trace_logs" THEN <<>> ELSE tl,
     performance_metrics |-> IF op = "clear_metrics" THEN <<>> ELSE pm]

\* variant: the probe issued without waiting for its answer
StartRun_ProbeNotAwaited ==
    /\ pc = "idle"
    /\ run.n < MaxRuns
    /\ \E op \in Ops, label \in SessionLabels, key \in BOOLEAN, secret \in BOOLEAN :
          /\ Interaction(op, label, key, secret)
          /\ selected_model' = label
          /\ aws_access_key' = key
          /\ aws_secret_key' = secret
          /\ run' = [NoRun EXCEPT !.n = run.n + 1, !.op = op,
                                  !.start_len = Len(messages)]
          /\ IF ProbeNeeded(label, key, secret)
             THEN /\ in_flight' = Append(in_flight, Call("probe", model_options[label]))
                  /\ probes' = [probes EXCEPT ![model_options[label]] = @ + 1]
             ELSE UNCHANGED <<in_flight, probes>>
          /\ pc' = "input"
    /\ UNCHANGED <<messages, trace_logs, performance_metrics, model_access_checked,
                   last, calls, adapter_vars, app>>

\* an interaction starts a run: the widgets take their values, and the
\* script reaches the probe, which it issues when the model is not cached
\* and both credentials are given
StartRun ==
    /\ pc = "idle"
    /\ run.n < MaxRuns
    /\ \E op \in Ops, label \in SessionLabels, key \in BOOLEAN, secret \in BOOLEAN :
          /\ Interaction(op, label, key, secret)
          /\ selected_model' = label
          /\ aws_access_key' = key
          /\ aws_secret_key' = secret
          /\ run' = [NoRun EXCEPT !.n = run.n + 1, !.op = op,
                                  !.start_len = Len(messages)]
          /\ IF ProbeNeeded(label, key, secret)
             THEN /\ in_flight' = Append(in_flight, Call("probe", model_options[label]))
                  /\ probes' = [probes EXCEPT ![model_options[label]] = @ + 1]
                  /\ pc' = "probe"
             ELSE /\ UNCHANGED <<in_flight, probes>>
                  /\ pc' = "input"
    /\ UNCHANGED <<messages, trace_logs, performance_metrics, model_access_checked,
                   last, calls, adapter_vars, app>>

\* the probe's invoke_model returns or raises: check_model_access reports,
\* the report is cached, or the exception ends the run
ProbeReturns ==
    /\ pc = "probe"
    /\ \E po \in ProbeOutcomes(selected_model, aws_access_key, aws_secret_key) :
          LET has_access == check_model_access(po) IN
          /\ in_flight' = SubSeq(in_flight, 1, Len(in_flight) - 1)
          /\ IF has_access.exc # "none"
             THEN /\ run' = [run EXCEPT !.probe = po, !.report = "raised",
                                        !.exc = has_access.exc]
                  /\ pc' = "idle"
                  /\ UNCHANGED model_access_checked
             ELSE /\ run' = [run EXCEPT !.probe = po,
                                        !.report = IF has_access.val THEN "True" ELSE "False"]
                  /\ model_access_checked' =
                        model_access_checked @@ (selected_model_id :> has_access.val)
                  /\ pc' = "input"
    /\ UNCHANGED <<messages, trace_logs, performance_metrics, aws_access_key,
                   aws_secret_key, selected_model, last, calls, adapter_vars,
                   app, probes>>

\* the script reaches the chat input and the buttons: a chat turn that may
\* go on appends the user message; a button empties its list and the
\* script is rerun; any other run ends
Input ==
    /\ pc = "input"
    /\ IF run.op = "chat"
          /\ chat_allowed(app, aws_access_key, aws_secret_key,
                          model_access_checked, selected_model_id)
       THEN \E prompt \in Prompts :
               /\ messages' = Append(messages, [role |-> "user", content |-> prompt])
               /\ pc' = "send"
               /\ UNCHANGED <<trace_logs, performance_metrics>>
       ELSE LET b == Buttons(run.op, messages, trace_logs, performance_metrics) IN
            /\ messages' = b.messages
            /\ trace_logs' = b.trace_logs
            /\ performance_metrics' = b.performance_metrics
            /\ pc' = "idle"
    /\ UNCHANGED <<model_access_checked, aws_access_key, aws_secret_key,
                   selected_model, last, calls, adapter_vars, app, in_flight,
                   probes, run>>

\* send_message_to_bedrock builds the request and calls invoke_model
IssueInvoke ==
    /\ pc = "send"
    /\ in_flight' = Append(in_flight, Call("invoke", selected_model_id))
    /\ run' = [run EXCEPT !.invoked = TRUE]
    /\ pc' = "invoke"
    /\ UNCHANGED <<session_vars, adapter_vars, app, probes>>

\* invoke_model returns a payload or raises
InvokeReturns ==
    /\ pc = "invoke"
    /\ \E outcome \in Outcomes(selected_model_id) :
          run' = [run EXCEPT !.outcome = outcome]
    /\ in_flight' = SubSeq(in_flight, 1, Len(in_flight) - 1)
    /\ pc' = "received"
    /\ UNCHANGED <<session_vars, adapter_vars, app, probes>>

\* the rest of send_message_to_bedrock: the logs, the text returned or the
\* exception that ends the run
Record ==
    /\ pc = "received"
    /\ LET r == IF app = "bedrock_chat_app"
                THEN send_message_to_bedrock(selected_model, selected_model_id, messages,
                                             max_tokens, temperature, run.outcome,
                                             trace_logs, performance_metrics)
                ELSE accesskey_send_message_to_bedrock(selected_model_id, messages,
                                             max_tokens, temperature, run.outcome,
                                             trace_logs, performance_metrics) IN
       /\ trace_logs' = r.trace_logs
       /\ performance_metrics' = r.performance_metrics
       /\ run' = [run EXCEPT !.exc = r.exc, !.ret = r.ret]
       /\ pc' = IF r.exc # "none" THEN "idle" ELSE "reply"
    /\ UNCHANGED <<messages, model_access_checked, aws_access_key, aws_secret_key,
                   selected_model, last, calls, adapter_vars, app, in_flight, probes>>

\* if response: the assistant message is appended
Reply ==
    /\ pc = "reply"
    /\ messages' =
          IF run.ret.k = "str" /\ run.ret.s # ""
          THEN Append(messages, [role |-> "assistant", content |-> run.ret.s])
          ELSE messages
    /\ pc' = "idle"
    /\ UNCHANGED <<trace_logs, performance_metrics, model_access_checked,
                   aws_access_key, aws_secret_key, selected_model, last, calls,
                   adapter_vars, app, in_flight, probes, run>>

RunInit ==
    /\ SessionStart
    /\ a_in = [model_id |-> "none"]
    /\ a_out = [fn |-> "none"]
    /\ app \in Apps
    /\ ScriptIdle

RunNext ==
    \/ StartRun
    \/ ProbeReturns
    \/ Input
    \/ IssueInvoke
    \/ InvokeReturns
    \/ Record
    \/ Reply

SpecRun == RunInit /\ [][RunNext]_vars

-----------------------------------------------------------------------------
(* Vocabulary of the adapter claims: what a payload holds, read off its     *)
(* structure rather than through the code's lookups                         *)

\* the family a request payload has the shape of
ShapeFamily(req) ==
    IF "messages" \in DOMAIN req THEN "anthropic"
    ELSE IF "prompt" \in DOMAIN req THEN "llama"
    ELSE "default"

RequestFamilyOf(model_id) == ShapeFamily(request_body(model_id, <<>>, 10, 7))

IsObjWith(v, key) == v.k = "obj" /\ key \in DOMAIN v.f

\* a payload that holds the text "x" at the field path of family fam only
PathOnlyBody(fam) ==
    CASE fam = "anthropic" -> JObj([content |-> AnthropicContent("x")])
      [] fam = "llama" -> JObj([generation |-> JStr("x")])
      [] OTHER -> JObj([results |-> TitanResults("x")])

Families == {"anthropic", "llama", "default"}

\* the families whose field path the text extractor reads for model_id
TextFamiliesOf(model_id) ==
    {f \in Families : response_text(model_id, PathOnlyBody(f)).exc = "none"}

\* first element of an array field that is an object holding key
HasArrayPath(body, field, key) ==
    /\ IsObjWith(body, field)
    /\ body.f[field].k = "arr"
    /\ Len(body.f[field].a) > 0
    /\ IsObjWith(body.f[field].a[1], key)

HasPath(fam, body) ==
    CASE fam = "anthropic" -> HasArrayPath(body, "content", "text")
      [] fam = "llama" -> IsObjWith(body, "generation")
      [] OTHER -> HasArrayPath(body, "results", "outputText")

StoredText(fam, body) ==
    CASE fam = "anthropic" -> body.f["content"].a[1].f["text"]
      [] fam = "llama" -> body.f["generation"]
      [] OTHER -> body.f["results"].a[1].f["outputText"]

\* the usage sub-object of a family, when the payload holds one
SubObjectKey(fam) == IF fam = "anthropic" THEN "usage" ELSE MetricsKey

HasSubObject(fam, body) ==
    IsObjWith(body, SubObjectKey(fam)) /\ body.f[SubObjectKey(fam)].k = "obj"

FieldOr0(obj, key) == IF key \in DOMAIN obj.f THEN NumOf(obj.f[key]) ELSE 0

TextOrEmpty(body, key) ==
    IF IsObjWith(body, key) /\ body.f[key].k = "str" THEN body.f[key].s ELSE ""

\* whether the family's usage fields can be looked up in the payload
UsageLookupPossible(fam, body) ==
    CASE fam = "llama" ->
            body.k = "obj" /\ (IsObjWith(body, "prompt") \/ IsObjWith(body, "generation"))
      [] OTHER -> HasSubObject(fam, body)

SubObjectUsage(fam, body) ==
    LET sub == body.f[SubObjectKey(fam)] IN
    IF fam = "anthropic"
    THEN Usage(FieldOr0(sub, "input_tokens"), FieldOr0(sub, "output_tokens"))
    ELSE Usage(FieldOr0(sub, "inputTokenCount"), FieldOr0(sub, "outputTokenCount"))

-----------------------------------------------------------------------------
(* C4, as stated: for every model identifier the request adapter, the text  *)
(* extractor and the token-usage extractor treat it as the same family, and *)
(* an identifier of the default family has its usage read from the          *)
(* amazon-bedrock-invocationMetrics sub-object (an Anthropic one from       *)
(* usage) whenever the payload holds that sub-object.                       *)
C4_SameFamilyEverywhere ==
    a_out.fn = "extract_token_counts" =>
        LET fam == RequestFamilyOf(a_in.model_id) IN
        /\ TextFamiliesOf(a_in.model_id) = {fam}
        /\ (fam # "llama" /\ HasSubObject(fam, a_in.body))
               => a_out.usage = SubObjectUsage(fam, a_in.body)

(* C5: extract_token_counts raises for no model identifier and no payload,  *)
(* and returns (0, 0) whenever the family's usage fields cannot be looked   *)
(* up in the payload.                                                       *)
C5_NeverRaises ==
    a_out.fn = "extract_token_counts" =>
        /\ a_out.usage.exc = "none"
        /\ ~UsageLookupPossible(RequestFamilyOf(a_in.model_id), a_in.body)
               => a_out.usage = Usage(0, 0)

\* the extractor was applied to a payload that is no object, and to one whose
\* usage sub-object is no mapping
C5_Witness ==
    /\ a_out.fn = "extract_token_counts"
    /\ Contains("anthropic", a_in.model_id)
    /\ IsObjWith(a_in.body, "usage")
    /\ a_in.body.f["usage"].k = "null"
    /\ a_out.usage = Usage(0, 0)

-----------------------------------------------------------------------------
(* Vocabulary of the request claims: the lines of a prompt *)

\* Python: s.split("\n")
RECURSIVE SplitFrom(_, _, _)
SplitFrom(s, i, cur) ==
    IF i > Len(s) THEN <<cur>>
    ELSE IF SubSeq(s, i, i) = "\n" THEN <<cur>> \o SplitFrom(s, i + 1, "")
    ELSE SplitFrom(s, i + 1, cur \o SubSeq(s, i, i))

Lines(s) == SplitFrom(s, 1, "")

\* the role prefix of a flattened message in family fam
Prefix(fam, msg) ==
    IF msg.role = "user" THEN (IF fam = "llama" THEN "Human: " ELSE "User: ")
    ELSE "Assistant: "

\* the flattened prompt of a request of family fam
PromptOf(fam, req) == IF fam = "llama" THEN req.prompt ELSE req.inputText

\* index of the line before the first line of message i: every earlier
\* message takes as many lines as its content has
RECURSIVE LinesBefore(_, _)
LinesBefore(msgs, i) ==
    IF i <= 1 THEN 0
    ELSE LinesBefore(msgs, i - 1) + Len(Lines(msgs[i - 1].content))

\* number of characters before the segment of message i
RECURSIVE CharsBefore(_, _, _)
CharsBefore(fam, msgs, i) ==
    IF i <= 1 THEN 0
    ELSE CharsBefore(fam, msgs, i - 1)
         + Len(Prefix(fam, msgs[i - 1])) + Len(msgs[i - 1].content) + 1

AnthropicMessagesKept(req, msgs) ==
    /\ Len(req.messages) = Len(msgs)
    /\ \A i \in 1..Len(msgs) :
          /\ req.messages[i].role = msgs[i].role
          /\ req.messages[i].content = msgs[i].content

(* C6, as stated: the payload holds every message exactly once and in        *)
(* order: as {role, content} pairs for the Anthropic family, and for the     *)
(* Llama and default families as one role-prefixed line per message, the     *)
(* prompt's lines being those lines followed by the cue.                     *)
C6_OneLinePerMessage ==
    a_out.fn = "request_body" =>
        LET fam == ShapeFamily(a_out.request)
            msgs == a_in.messages IN
        IF fam = "anthropic" THEN AnthropicMessagesKept(a_out.request, msgs)
        ELSE LET lines == Lines(PromptOf(fam, a_out.request)) IN
             /\ Len(lines) = Len(msgs) + 1
             /\ \A i \in 1..Len(msgs) :
                   lines[i] = Prefix(fam, msgs[i]) \o msgs[i].content
             /\ lines[Len(msgs) + 1] = "Assistant: "

(* C6, amended: the payload holds every message exactly once and in order:   *)
(* as {role, content} pairs for the Anthropic family, and for the Llama and  *)
(* default families as one role-prefixed block of lines per message, which   *)
(* is the lines of the content with the first one role-prefixed (a single    *)
(* line when the content has no line break), the blocks followed by the cue. *)
C6_OneBlockPerMessage ==
    a_out.fn = "request_body" =>
        LET fam == ShapeFamily(a_out.request)
            msgs == a_in.messages IN
        IF fam = "anthropic" THEN AnthropicMessagesKept(a_out.request, msgs)
        ELSE LET lines == Lines(PromptOf(fam, a_out.request))
                 n == Len(msgs) IN
             /\ Len(lines) = LinesBefore(msgs, n + 1) + 1
             /\ \A i \in 1..n :
                   SubSeq(lines, LinesBefore(msgs, i) + 1, LinesBefore(msgs, i + 1))
                       = Lines(Prefix(fam, msgs[i]) \o msgs[i].content)
             /\ lines[Len(lines)] = "Assistant: "

\* a two-message conversation with a line break in it was flattened
C6_Witness ==
    /\ a_out.fn = "request_body"
    /\ ShapeFamily(a_out.request) = "default"
    /\ Len(a_in.messages) = 2
    /\ a_in.messages[1].content = "a\nb"
    /\ a_in.messages[2].content = "Hello"
    /\ Len(Lines(a_out.request.inputText)) = 4

(* C7: for a Llama-family model the prompt is, in order, "Human: <content>"  *)
(* and a line break for each user message and "Assistant: <content>" and a   *)
(* line break for each other message, then the cue "Assistant: "; maxGenLen   *)
(* is maxTokens and the temperature is passed unchanged; the conversation    *)
(* [{user, "Hello"}] gives exactly "Human: Hello\nAssistant: ".              *)
C7_LlamaPrompt ==
    (a_out.fn = "request_body" /\ Contains("meta.llama", a_in.model_id)) =>
        LET req == a_out.request
            msgs == a_in.messages
            n == Len(msgs) IN
        /\ DOMAIN req = {"prompt", "max_gen_len", "temperature"}
        /\ \A i \in 1..n :
              SubSeq(req.prompt, CharsBefore("llama", msgs, i) + 1,
                     CharsBefore("llama", msgs, i + 1))
                  = (IF msgs[i].role = "user" THEN "Human: " ELSE "Assistant: ")
                        \o msgs[i].content \o "\n"
        /\ SubSeq(req.prompt, CharsBefore("llama", msgs, n + 1) + 1, Len(req.prompt))
              = "Assistant: "
        /\ Len(req.prompt) = CharsBefore("llama", msgs, n + 1) + Len("Assistant: ")
        /\ req.max_gen_len = a_in.max_tokens
        /\ req.temperature = a_in.temperature
        /\ msgs = <<[role |-> "user", content |-> "Hello"]>>
              => req.prompt = "Human: Hello\nAssistant: "

\* the scenario of the claim: [{user, "Hello"}] with maxTokens = 10
C7_Witness ==
    /\ a_out.fn = "request_body"
    /\ Contains("meta.llama", a_in.model_id)
    /\ a_in.messages = <<[role |-> "user", content |-> "Hello"]>>
    /\ a_in.max_tokens = 10
    /\ a_out.request.prompt = "Human: Hello\nAssistant: "
    /\ a_out.request.max_gen_len = 10

(* C8: for every family the text extractor returns exactly the text stored   *)
(* at the family's field path when the payload holds that path, and fails    *)
(* (KeyError, IndexError or TypeError) when it does not.                     *)
C8_ExtractText ==
    a_out.fn = "response_text" =>
        LET fam == RequestFamilyOf(a_in.model_id) IN
        IF HasPath(fam, a_in.body)
        THEN a_out.text = Ok(StoredText(fam, a_in.body))
        ELSE a_out.text.exc \in {"KeyError", "IndexError", "TypeError"}

\* the path was present for one family and absent (an empty content array)
\* for the same family
C8_Witness ==
    /\ a_out.fn = "response_text"
    /\ Contains("anthropic", a_in.model_id)
    /\ IsObjWith(a_in.body, "content")
    /\ a_in.body.f["content"] = JArr(<<>>)
    /\ a_out.text = Raise("IndexError")

(* C9: for a Llama-family model the usage is floor(len(prompt)/4) and        *)
(* floor(len(generation)/4), each from its own field of the payload, an      *)
(* absent field counting as empty; with neither field it is (0, 0).          *)
C9_LlamaEstimate ==
    (/\ a_out.fn = "extract_token_counts"
     /\ Contains("meta.llama", a_in.model_id)
     /\ a_in.body.k = "obj") =>
        /\ a_out.usage = Usage(Len(TextOrEmpty(a_in.body, "prompt")) \div 4,
                               Len(TextOrEmpty(a_in.body, "generation")) \div 4)
        /\ (~IsObjWith(a_in.body, "prompt") /\ ~IsObjWith(a_in.body, "generation"))
              => a_out.usage = Usage(0, 0)

\* a payload with a 24-character prompt and a 9-character generation
C9_Witness ==
    /\ a_out.fn = "extract_token_counts"
    /\ Contains("meta.llama", a_in.model_id)
    /\ IsObjWith(a_in.body, "prompt")
    /\ IsObjWith(a_in.body, "generation")
    /\ Len(a_in.body.f["prompt"].s) = 24
    /\ Len(a_in.body.f["generation"].s) = 9
    /\ a_out.usage = Usage(6, 2)

-----------------------------------------------------------------------------
(* Vocabulary of the tracer claims *)

\* the last run called send_message_to_bedrock
Invoked == last.op = "chat" /\ last.invoked

\* the conversation that call was handed: the history up to the user message
Handed ==
    IF last.exc = "none" /\ last.ret.k = "str" /\ last.ret.s # ""
    THEN SubSeq(messages, 1, Len(messages) - 1) ELSE messages

TraceAdded == Len(trace_logs) - last.trace_before

PerfAdded == Len(performance_metrics) - last.perf_before

LastTrace == trace_logs[Len(trace_logs)]

LastPerf == performance_metrics[Len(performance_metrics)]

\* the remote call returned and the family's text field was found
InvocationSucceeded ==
    /\ last.outcome.kind = "ok"
    /\ HasPath(RequestFamilyOf(selected_model_id), last.outcome.body)

(* C1, as stated: every call of send_message_to_bedrock, whatever the remote *)
(* call and the parsing of its answer do, appends exactly one trace record,  *)
(* and exactly one performance record if the invocation succeeds and none    *)
(* otherwise.                                                                *)
C1_OneTracePerCall ==
    Invoked =>
        /\ TraceAdded = 1
        /\ PerfAdded = (IF InvocationSucceeded THEN 1 ELSE 0)

(* C2, as stated: when the remote call fails with any transport or service   *)
(* error, the call appends a trace record with the error message and the     *)
(* attempted request, appends no performance record, returns the fallback    *)
(* text and lets no failure reach its caller.                                *)
C2_RemoteFailureAbsorbed ==
    (Invoked /\ last.outcome.kind # "ok") =>
        /\ last.exc = "none"
        /\ last.ret = JStr(FallbackText)
        /\ TraceAdded = 1
        /\ "error" \in DOMAIN LastTrace
        /\ LastTrace.error = last.outcome.msg
        /\ LastTrace.request =
              request_body(selected_model_id, Handed, max_tokens, temperature)
        /\ PerfAdded = 0

(* C3, as stated: when the remote call returns a payload that lacks the      *)
(* family's text field, the call absorbs the failure: it appends an error    *)
(* entry to the trace log, returns the fallback text and lets no failure     *)
(* escape.                                                                   *)
C3_MalformedAbsorbed ==
    (/\ Invoked
     /\ last.outcome.kind = "ok"
     /\ ~HasPath(RequestFamilyOf(selected_model_id), last.outcome.body)) =>
        /\ last.exc = "none"
        /\ last.ret = JStr(FallbackText)
        /\ TraceAdded = 1
        /\ "error" \in DOMAIN LastTrace

(* C10, as stated: in every performance record totalTokens is inputTokens +  *)
(* outputTokens, and tokensPerSecond is totalTokens / responseSeconds of the *)
(* same record (to two decimals) when its responseSeconds > 0 and 0          *)
(* otherwise.                                                                *)
C10_RateOfStoredTime ==
    \A i \in 1..Len(performance_metrics) :
        LET r == performance_metrics[i] IN
        /\ r.total_tokens = r.input_tokens + r.output_tokens
        /\ r.tokens_per_second =
              (IF r.response_time > 0
               THEN RoundDiv(r.total_tokens * 100 * 100, r.response_time)
               ELSE 0)

\* |x - a/b| <= 1/2, for b > 0: x is a / b rounded to the nearest integer
Nearest(x, a, b) ==
    /\ 2 * (x * b - a) <= b
    /\ 2 * (a - x * b) <= b

(* C10, amended: in every performance record totalTokens is inputTokens +    *)
(* outputTokens; the record a call appends has tokensPerSecond equal to      *)
(* totalTokens divided by the elapsed time the call measured, rounded to two *)
(* decimals, when that elapsed time is > 0 and 0 otherwise, and              *)
(* responseSeconds equal to the same elapsed time rounded to two decimals    *)
(* (so the quotient of the stored fields need not be the stored rate, and    *)
(* the rate is not 0 when the stored time rounds to 0); no call ends in a    *)
(* division error.                                                           *)
C10_RateOfMeasuredTime ==
    /\ \A i \in 1..Len(performance_metrics) :
          LET r == performance_metrics[i] IN
          /\ r.total_tokens = r.input_tokens + r.output_tokens
          /\ r.tokens_per_second >= 0
    /\ last.exc # "ZeroDivisionError"
    /\ (Invoked /\ PerfAdded = 1) =>
          LET r == LastPerf
              ms == last.outcome.elapsed IN
          /\ Nearest(r.response_time, ms, 10)
          /\ ms > 0 => Nearest(r.tokens_per_second, r.total_tokens * 1000 * 100, ms)
          /\ ms = 0 => r.tokens_per_second = 0

\* a call that took 4 ms appended a record whose time rounds to 0.00 s and
\* whose rate is 3000.00 tokens per second
C10_Witness ==
    /\ Invoked
    /\ PerfAdded = 1
    /\ last.outcome.elapsed = 4
    /\ LastPerf.total_tokens = 12
    /\ LastPerf.response_time = 0
    /\ LastPerf.tokens_per_second = 300000

-----------------------------------------------------------------------------
(* Vocabulary of the aggregator claims *)

Columns == {"response_time", "total_tokens", "tokens_per_second"}

Summarized == a_out.fn = "metrics_tab" /\ a_in.log # <<>>

ColumnSum(col) == SumTo(a_in.log, col, Len(a_in.log))

LastValue(col) == a_in.log[Len(a_in.log)][col]

(* C11, as stated: the summary holds, for each metric, the mean over all     *)
(* records of the log, and a delta equal to the last record's value minus    *)
(* that mean when the log has more than one record and absent when it has    *)
(* exactly one.                                                              *)
C11_MeanAndDelta ==
    Summarized =>
        \A col \in Columns :
            LET m == a_out.view[col]
                n == Len(a_in.log) IN
            /\ m.value * n = ColumnSum(col)
            /\ (n = 1) = m.delta.absent
            /\ n > 1 => m.delta.v * n = n * LastValue(col) - ColumnSum(col)

(* C11, amended: the summary holds, for each metric, the mean over all       *)
(* records of the log rounded to the precision shown (two decimals for the   *)
(* response time and the rate, none for the tokens), and a delta that is     *)
(* the last record's value minus the unrounded mean, rounded the same way,   *)
(* when the log has more than one record and absent when it has exactly      *)
(* one; for totalTokens [100, 50] the mean is 75 and the delta is -25.       *)
C11_RoundedMeanAndDelta ==
    Summarized =>
        /\ \A col \in Columns :
              LET m == a_out.view[col]
                  n == Len(a_in.log) IN
              /\ Nearest(m.value, ColumnSum(col), n)
              /\ (n = 1) = m.delta.absent
              /\ n > 1 => Nearest(m.delta.v, n * LastValue(col) - ColumnSum(col), n)
        /\ (/\ Len(a_in.log) = 2
            /\ a_in.log[1].total_tokens = 100
            /\ a_in.log[2].total_tokens = 50) =>
              /\ a_out.view.total_tokens.value = 75
              /\ a_out.view.total_tokens.delta = Shown(-25)

\* the scenario's log was summarized: mean 75 and delta -25 for the tokens,
\* 1.50 s and -0.50 s for the times 2 s and 1 s
C11_Witness ==
    /\ Summarized
    /\ Len(a_in.log) = 2
    /\ a_in.log[1].total_tokens = 100 /\ a_in.log[1].response_time = 200
    /\ a_in.log[2].total_tokens = 50 /\ a_in.log[2].response_time = 100
    /\ a_out.view.total_tokens = [value |-> 75, delta |-> Shown(-25)]
    /\ a_out.view.response_time = [value |-> 150, delta |-> Shown(-50)]

-----------------------------------------------------------------------------
(* Vocabulary of the log claims *)

IsPrefix(s, t) == Len(s) <= Len(t) /\ SubSeq(t, 1, Len(s)) = s

(* C12: whenever a log is empty, and so after it is cleared, its tab shows   *)
(* the explicit "no data" notice and nothing else: no mean, delta or         *)
(* grouping is computed and nothing fails.                                   *)
C12_EmptyLogShowsNoData ==
    /\ performance_metrics = <<>> =>
          metrics_tab(performance_metrics) = {[kind |-> "info"]}
    /\ trace_logs = <<>> => trace_tab(trace_logs) = [kind |-> "info"]

\* "Clear Metrics" has emptied the log of a session whose trace log holds
\* the record of an answered call, and the tab shows the notice while the
\* trace tab lists its entries
C12_Witness ==
    /\ performance_metrics = <<>>
    /\ \E i \in 1..Len(trace_logs) : "response" \in DOMAIN trace_logs[i]
    /\ metrics_tab(performance_metrics) = {[kind |-> "info"]}
    /\ trace_tab(trace_logs).kind = "entries"

(* C14: a step shortens a log only if it is that log's own clear action:     *)
(* "Start New Conversation" and chat turns remove nothing from either log,   *)
(* "Clear Metrics" leaves the trace log as it is, and "Clear Trace Logs"     *)
(* leaves the performance log and the conversation as they are.              *)
C14_ClearedOnlyByOwnAction ==
    [][/\ ~IsPrefix(trace_logs, trace_logs') => run'.op = "clear_trace_logs"
       /\ ~IsPrefix(performance_metrics, performance_metrics') =>
             run'.op = "clear_metrics"
       /\ run'.op \in {"new_conversation", "chat"} =>
             /\ IsPrefix(trace_logs, trace_logs')
             /\ IsPrefix(performance_metrics, performance_metrics')
       /\ run'.op = "clear_metrics" => trace_logs' = trace_logs
       /\ run'.op = "clear_trace_logs" =>
             /\ performance_metrics' = performance_metrics
             /\ messages' = messages]_vars

\* "Start New Conversation" has emptied a conversation and both logs still
\* hold their records
C14_Witness ==
    /\ run.op = "new_conversation"
    /\ pc = "idle"
    /\ run.start_len > 0
    /\ messages = <<>>
    /\ trace_logs # <<>>
    /\ performance_metrics # <<>>

(* C15: between two clear actions each log is append-only: in every step    *)
(* but the log's own clear the earlier log is an unchanged prefix of the     *)
(* later one, and a call's record goes to the end of the log, behind the     *)
(* records of the calls that completed before it.                            *)
C15_AppendOnly ==
    [][/\ run'.op # "clear_trace_logs" => IsPrefix(trace_logs, trace_logs')
       /\ run'.op # "clear_metrics" =>
             IsPrefix(performance_metrics, performance_metrics')
       /\ Len(trace_logs') <= Len(trace_logs) + 1
       /\ Len(performance_metrics') <= Len(performance_metrics) + 1
       /\ Len(trace_logs') = Len(trace_logs) + 1 =>
             trace_logs'[Len(trace_logs')].request =
                request_body(selected_model_id, messages, max_tokens, temperature)]_vars

\* a second call has put its error entry behind the record of the first
C15_Witness ==
    /\ run.invoked
    /\ pc = "reply"
    /\ Len(trace_logs) = 2
    /\ "response" \in DOMAIN trace_logs[1]
    /\ "error" \in DOMAIN trace_logs[2]
    /\ trace_logs[2].request # trace_logs[1].request

(* C17, as stated: between runs the conversation alternates user, assistant, *)
(* starting with user: every user message is followed by one assistant      *)
(* message, whatever the turns and resets before did.                        *)
C17_HistoryAlternates ==
    /\ Len(messages) % 2 = 0
    /\ \A i \in 1..Len(messages) :
          messages[i].role = (IF i % 2 = 1 THEN "user" ELSE "assistant")

-----------------------------------------------------------------------------
(* Vocabulary of the run claims *)

\* the probe of the current run has come back
ProbeBack == run.report # "none"

\* what the claim has the probe report for an outcome of its request
Expected(po) ==
    CASE po.kind = "ok" -> "success"
      [] po.kind = "ClientError" /\ Contains("AccessDeniedException", po.msg) -> "denied"
      [] OTHER -> "indeterminate"

\* what the caller of check_model_access is told: True is "accessible",
\* False is "denied"; an exception is no report
Reported(report) ==
    CASE report = "True" -> "success"
      [] report = "False" -> "denied"
      [] OTHER -> "none"

\* the cache holds "denied" for the selected model
Denied ==
    /\ selected_model_id \in DOMAIN model_access_checked
    /\ ~model_access_checked[selected_model_id]

C16_OneCallInFlight ==
    [][/\ Len(in_flight') <= 1
       /\ in_flight # <<>> =>
             /\ in_flight' = <<>>
             /\ messages' = messages
             /\ trace_logs' = trace_logs
             /\ performance_metrics' = performance_metrics]_vars

\* a turn whose probe has come back and whose invocation is in flight, the
\* user message in the history and no record of the call in the logs yet
C16_Witness ==
    /\ run.op = "chat"
    /\ ProbeBack
    /\ pc = "invoke"
    /\ in_flight = <<Call("invoke", selected_model_id)>>
    /\ Len(messages) = run.start_len + 1
    /\ trace_logs = <<>>

(* C18, as stated: the probe is issued at most once per model identifier in  *)
(* a session and only when both credentials are supplied; a cached result is *)
(* never changed or removed by a later step.                                 *)
C18_ProbedOncePerModel ==
    [][/\ \A m \in AllModelIds : probes'[m] <= 1
       /\ pc' = "probe" => aws_access_key' /\ aws_secret_key'
       /\ \A m \in DOMAIN model_access_checked :
             /\ m \in DOMAIN model_access_checked'
             /\ model_access_checked'[m] = model_access_checked[m]]_vars

(* C19: in the accesskey script a chat turn calls the model and appends to   *)
(* the history only when both credentials are supplied and the cached probe  *)
(* result of the selected model is not "denied"; otherwise it makes no call  *)
(* and leaves the history as it was.                                         *)
C19_ChatGate ==
    (app = "accesskey_bedrock_chat_app" /\ run.op = "chat") =>
        LET allowed == aws_access_key /\ aws_secret_key /\ ~Denied IN
        /\ (run.invoked \/ Len(messages) # run.start_len) => allowed
        /\ (pc = "idle" /\ ~allowed) =>
              /\ ~run.invoked
              /\ run.outcome = NoOutcome
              /\ Len(messages) = run.start_len

\* a chat turn of the accesskey script has ended at the gate: credentials
\* given, the model cached as denied, no call made, the history as before
C19_Witness ==
    /\ app = "accesskey_bedrock_chat_app"
    /\ run.op = "chat"
    /\ pc = "idle"
    /\ aws_access_key /\ aws_secret_key
    /\ Denied
    /\ ~run.invoked
    /\ messages = <<>>

====
